---- MODULE Spec2Model ----
(***************************************************************************)
(* Model of Storage.py: the FileProcessorThread scanner (enumeration and   *)
(* emission phases of run(), the cancel/pause/resume control surface), the *)
(* stream of Qt signals it emits, and the FileAnalyzerUI window that       *)
(* starts scans and handles the signals (add_row, update_progress,         *)
(* show_results with render_funnel_chart, thread_cancelled, cancel_scan,   *)
(* toggle_pause_resume).                                                   *)
(*                                                                         *)
(* Specifications                                                          *)
(*   - Spec, FairSpec: one scanner thread and its control surface, called  *)
(*     at any time; the window handles nothing;                            *)
(*   - UISpec: the window drives the thread through its buttons, handles   *)
(*     the queued signals and may start a scan again.                      *)
(*                                                                         *)
(* Representation                                                          *)
(*   - a string is a sequence of one-character strings, so lower(),        *)
(*     strip() and endswith() are computed, not assumed;                   *)
(*   - a file size is a whole number of MiB; size_mb and size_gb are the   *)
(*     exact rationals <<numerator, denominator>> that the float divisions *)
(*     of get_file_size produce (a division by a power of two is exact);   *)
(*   - a threshold and an f"{x:.2f}" string are whole hundredths;          *)
(*   - a path abspath(join(dirpath, filename)) is <<dirpath, filename>>.   *)
(***************************************************************************)
EXTENDS Integers, Sequences, FiniteSets, TLC

\* ------------------------------------------------------------------ bounds

\* Largest number of files in the walked tree.
MaxFiles == 2

\* Largest elapsed time, in whole seconds, read by the emission loop.
MaxElapsed == 1

\* Largest number of scans the window starts.
MaxScans == 2

\* ---------------------------------------------------------------- strings

Lower(c) ==
    CASE c = "A" -> "a"
      [] c = "M" -> "m"
      [] c = "Z" -> "z"
      [] OTHER -> c

LowerStr(s) == [k \in 1..Len(s) |-> Lower(s[k])]

RECURSIVE LStrip(_)
LStrip(s) == IF s # <<>> /\ Head(s) = " " THEN LStrip(Tail(s)) ELSE s

RECURSIVE RStrip(_)
RStrip(s) ==
    IF s # <<>> /\ s[Len(s)] = " " THEN RStrip(SubSeq(s, 1, Len(s) - 1)) ELSE s

Strip(s) == RStrip(LStrip(s))

EndsWith(s, suffix) ==
    /\ Len(suffix) <= Len(s)
    /\ SubSeq(s, Len(s) - Len(suffix) + 1, Len(s)) = suffix

\* ---------------------------------------------------------------- numbers

\* 1024 ** 3 / 1024 ** 2: MiB per GiB.
MiBPerGiB == 1024

\* q = <<n, d>> > t hundredths.
Exceeds(q, t) == q[1] * 100 > t * q[2]

\* f"{q:.2f}" in hundredths: round to nearest, ties to even.
Fmt2(q) ==
    LET n == q[1] * 100
        lo == n \div q[2]
        r == n % q[2]
    IN  IF 2 * r < q[2] THEN lo
        ELSE IF 2 * r > q[2] THEN lo + 1
        ELSE IF lo % 2 = 0 THEN lo ELSE lo + 1

\* ------------------------------------------------------------- file system

None == "None"

File(name, mib, exists, statable) ==
    [name |-> name, mib |-> mib, exists |-> exists, statable |-> statable]

\* The kinds of file a tree is built from.
Files ==
    { File(<<"a", ".", "M">>, 2048, TRUE, TRUE),
      File(<<"b", ".", "z">>, 103, TRUE, TRUE),
      File(<<"c", ".", "m">>, 50, TRUE, TRUE),
      File(<<"d", ".", "z">>, 2048, FALSE, TRUE),
      File(<<"e", ".", "m">>, 2048, TRUE, FALSE) }

Dirs == <<"/r", "/r/s">>

DirIndex(d) == CHOOSE k \in 1..Len(Dirs) : Dirs[k] = d

Entry(d, f) == [dirpath |-> d, file |-> f]

\* What os.walk lists: entries grouped by directory, in walk order, every
\* filename once per directory.
IsListing(es) ==
    /\ \A k \in 1..Len(es) - 1 :
           DirIndex(es[k].dirpath) <= DirIndex(es[k + 1].dirpath)
    /\ \A j, k \in 1..Len(es) :
           j # k /\ es[j].dirpath = es[k].dirpath
               => es[j].file.name # es[k].file.name

EntrySet == {Entry(Dirs[k], f) : k \in 1..Len(Dirs), f \in Files}

Listings ==
    UNION {{es \in [1..n -> EntrySet] : IsListing(es)} : n \in 0..MaxFiles}

Roots ==
    {[readable |-> TRUE, entries |-> es] : es \in Listings}
        \cup {[readable |-> FALSE, entries |-> es] :
                  es \in {l \in Listings : Len(l) <= 1}}

\* Thresholds typed into the size field, in hundredths of a GiB.
Thresholds == {0, 10}

\* self.ext_input.text().split(","), for the texts "" and " .M".
ExtensionInputs == { << <<>> >>, << <<" ", ".", "M">> >> }

\* ------------------------------------------------------------------- state

VARIABLES
    request,           \* the arguments FileProcessorThread was constructed with
    root_directory,    \* self.root_directory: the tree os.walk lists
    threshold_gb,      \* self.threshold_gb, hundredths of a GiB
    extensions,        \* self.extensions, normalised
    cancel_requested,  \* self.cancel_requested
    paused,            \* self.paused
    pc,                \* where run() stands
    w,                 \* number of walk entries run() has passed
    files_to_process,  \* run()'s candidate list
    results,           \* run()'s result list
    total_files,       \* run()'s total_files
    i,                 \* index of the emission loop
    elapsed,           \* time.time() - start_time as last read, seconds
    events,            \* the signals emitted so far, in emission order
    evAtCancel,        \* Len(events) when cancel() first set its flag, else -1
    pcAtCancel,        \* pc when cancel() first set its flag, else "never"
    evAtPause,         \* Len(events) when pause() last set its flag, else -1
    delivered,         \* number of signals of self.thread the window handled
    old_pending,       \* signals of a replaced thread the window has not handled
    posted,            \* how many of them were queued when it was replaced
    folder_items,      \* self.folder_items with each item's children, in order
    ingested,          \* the rows add_row was called with since table.clear()
    stale_handled,     \* a replaced thread's signal was handled since then
    cancel_button,     \* self.cancel_button.isEnabled()
    pause_button,      \* self.pause_button.isEnabled()
    progress_bar,      \* self.progress_bar.value()
    chart,             \* the bars render_funnel_chart last drew
    scans              \* number of scans the window has started

vars ==
    <<request, root_directory, threshold_gb, extensions, cancel_requested,
      paused, pc, w, files_to_process, results, total_files, i, elapsed,
      events, evAtCancel, pcAtCancel, evAtPause, delivered, old_pending,
      posted, folder_items, ingested, stale_handled, cancel_button,
      pause_button, progress_bar, chart, scans>>

scan == <<request, root_directory, threshold_gb, extensions>>
flags == <<cancel_requested, paused, evAtCancel, pcAtCancel, evAtPause>>
queue == <<delivered, old_pending, posted>>
view == <<folder_items, ingested, stale_handled, progress_bar, chart>>
buttons == <<cancel_button, pause_button>>
ui == <<queue, view, buttons, scans>>

\* ----------------------------------------------------------------- signals

Signal(sig, args) == [sig |-> sig, args |-> args]

NoFilesMessage == "No files found above threshold."

\* f"{filename} | {i+1} of {total_files} | ~{remaining}s left"
ProgressMessage(filename, k, total, remaining) ==
    [filename |-> filename, ordinal |-> k, total |-> total,
     remaining |-> remaining]

\* ------------------------------------------------------- FileProcessorThread

\* threshold_gb or 1.0
InitThreshold(t) == IF t = 0 THEN 100 ELSE t

\* [ext.strip().lower() for ext in extensions if ext.strip()]
InitExtensions(exts) ==
    LET kept == SelectSeq(exts, LAMBDA e : Strip(e) # <<>>)
    IN  [k \in 1..Len(kept) |-> LowerStr(Strip(kept[k]))]

\* start_scan has cleared the view, constructed the thread for the request
\* and enabled the buttons.
Constructed ==
    /\ root_directory = request.root
    /\ threshold_gb = InitThreshold(request.threshold)
    /\ extensions = InitExtensions(request.extensions)
    /\ cancel_requested = FALSE
    /\ paused = FALSE
    /\ pc = "created"
    /\ w = 0
    /\ files_to_process = <<>>
    /\ results = <<>>
    /\ total_files = 0
    /\ i = 0
    /\ elapsed = 0
    /\ events = <<>>
    /\ evAtCancel = -1
    /\ pcAtCancel = "never"
    /\ evAtPause = -1
    /\ delivered = 0
    /\ old_pending = <<>>
    /\ posted = 0
    /\ folder_items = <<>>
    /\ ingested = <<>>
    /\ stale_handled = FALSE
    /\ cancel_button = TRUE
    /\ pause_button = TRUE
    /\ progress_bar = 0
    /\ chart = <<>>
    /\ scans = 1

Init ==
    /\ request \in [root : Roots, threshold : Thresholds,
                    extensions : ExtensionInputs]
    /\ Constructed

\* Faulty variant: a failed probe is not noticed and a size is reported.
get_file_sizeUnguarded(f) == <<(<<f.mib, 1>>), (<<f.mib, MiBPerGiB>>)>>

get_file_size(f) ==
    IF f.statable
        THEN <<(<<f.mib, 1>>), (<<f.mib, MiBPerGiB>>)>>
        ELSE <<None, None>>

\* os.walk(root): an unreadable root is listed as nothing, without an error.
Walk(root) == IF root.readable THEN root.entries ELSE <<>>

\* Faulty variant: the filename is matched without lower().
MatchesAnyCaseSensitive(filename, exts) ==
    \E k \in 1..Len(exts) : EndsWith(filename, exts[k])

\* any(filename.lower().endswith(ext) for ext in self.extensions)
MatchesAny(filename, exts) ==
    \E k \in 1..Len(exts) : EndsWith(LowerStr(filename), exts[k])

PassesFilter(filename, exts) == exts = <<>> \/ MatchesAny(filename, exts)

\* Faulty variant: the size in MiB is compared with the threshold in GiB.
AboveThresholdInMiB(size_gb, t) == Exceeds(<<size_gb[1], 1>>, t)

AboveThreshold(size_gb, t) == Exceeds(size_gb, t)

\* The body of the enumeration loop for one entry: the candidate list after it.
Enumerate(cands, e, exts, t) ==
    LET f == e.file
        size == get_file_size(f)
    IN  IF ~PassesFilter(f.name, exts) THEN cands
        ELSE IF ~f.exists THEN cands
        ELSE IF size[2] = None THEN cands
        ELSE IF AboveThreshold(size[2], t)
            THEN Append(cands,
                        [filename |-> f.name,
                         file_path |-> <<e.dirpath, f.name>>,
                         size_mb |-> size[1],
                         size_gb |-> size[2]])
        ELSE cands

\* (filename, file_path, f"{size_mb:.2f}", f"{size_gb:.2f}")
Row(c) == <<c.filename, c.file_path, Fmt2(c.size_mb), Fmt2(c.size_gb)>>

\* Faulty variant: the percent of the loop index i, not of i + 1.
PercentOfIndex(k, total) == ((k - 1) * 100) \div total

\* int((i + 1) / total_files * 100)
Percent(k, total) == (k * 100) \div total

\* Faulty variant: the files still to come are not counted, all files are.
RemainingOfAll(el, k, total) == (el * total) \div k

\* int((elapsed / (i + 1)) * (total_files - i - 1))
Remaining(el, k, total) == (el * (total - k)) \div k

Emit(s) == events' = Append(events, s)

\* thread.start(): run() begins with empty lists.
Start ==
    /\ pc = "created"
    /\ pc' = "walk"
    /\ results' = <<>>
    /\ files_to_process' = <<>>
    /\ UNCHANGED <<scan, ui, flags, w, total_files, i, elapsed, events>>

\* Lines 47-49: the cancel check at a listed file.
WalkCancelled ==
    /\ pc = "walk"
    /\ w < Len(Walk(root_directory))
    /\ cancel_requested
    /\ Emit(Signal("cancelled", <<>>))
    /\ pc' = "done"
    /\ UNCHANGED <<scan, ui, flags, w, files_to_process, results, total_files, i,
                   elapsed>>

\* Lines 51-65: filter, probe and threshold for a listed file.
WalkFile ==
    /\ pc = "walk"
    /\ w < Len(Walk(root_directory))
    /\ ~cancel_requested
    /\ files_to_process' =
           Enumerate(files_to_process, Walk(root_directory)[w + 1],
                     extensions, threshold_gb)
    /\ w' = w + 1
    /\ UNCHANGED <<scan, ui, flags, pc, results, total_files, i, elapsed, events>>

\* Faulty variant: no branch for an empty candidate list; the loop runs zero times.
WalkDoneWithoutEmptyCase ==
    /\ pc = "walk"
    /\ w = Len(Walk(root_directory))
    /\ total_files' = Len(files_to_process)
    /\ pc' = IF Len(files_to_process) = 0 THEN "finish" ELSE "pause_check"
    /\ i' = 0
    /\ elapsed' = 0
    /\ UNCHANGED <<scan, ui, flags, w, files_to_process, results, events>>

\* Lines 67-68, 73: the walk is over.
WalkDone ==
    /\ pc = "walk"
    /\ w = Len(Walk(root_directory))
    /\ total_files' = Len(files_to_process)
    /\ pc' = IF Len(files_to_process) = 0 THEN "no_files" ELSE "pause_check"
    /\ i' = 0
    /\ elapsed' = 0
    /\ UNCHANGED <<scan, ui, flags, w, files_to_process, results, events>>

\* Line 69.
EmitNoFiles ==
    /\ pc = "no_files"
    /\ Emit(Signal("progress_update", <<100, NoFilesMessage>>))
    /\ pc' = "no_files_result"
    /\ UNCHANGED <<scan, ui, flags, w, files_to_process, results, total_files, i,
                   elapsed>>

\* Lines 70-71.
EmitEmptyResult ==
    /\ pc = "no_files_result"
    /\ Emit(Signal("result_ready", <<(<<>>)>>))
    /\ pc' = "done"
    /\ UNCHANGED <<scan, ui, flags, w, files_to_process, results, total_files, i,
                   elapsed>>

\* Faulty variant: the loop is entered without reading self.paused.
PauseCheckSkipped ==
    /\ pc = "pause_check"
    /\ pc' = "cancel_check"
    /\ UNCHANGED <<scan, ui, flags, w, files_to_process, results, total_files, i,
                   elapsed, events>>

\* Line 76: while self.paused.
PauseCheck ==
    /\ pc = "pause_check"
    /\ pc' = IF paused THEN "sleep" ELSE "cancel_check"
    /\ UNCHANGED <<scan, ui, flags, w, files_to_process, results, total_files, i,
                   elapsed, events>>

\* Line 77: time.sleep(0.1).
Sleep ==
    /\ pc = "sleep"
    /\ pc' = "pause_check"
    /\ UNCHANGED <<scan, ui, flags, w, files_to_process, results, total_files, i,
                   elapsed, events>>

\* Faulty variant: the emission loop does not read self.cancel_requested.
CancelCheckSkipped ==
    /\ pc = "cancel_check"
    /\ pc' = "emit_file"
    /\ UNCHANGED <<scan, ui, flags, w, files_to_process, results, total_files, i,
                   elapsed, events>>

\* Faulty variant: no return after cancelled.emit().
CancelCheckWithoutReturn ==
    /\ pc = "cancel_check"
    /\ IF cancel_requested
          THEN Emit(Signal("cancelled", <<>>))
          ELSE UNCHANGED events
    /\ pc' = "emit_file"
    /\ UNCHANGED <<scan, ui, flags, w, files_to_process, results, total_files,
                   i, elapsed>>

\* Lines 78-80.
CancelCheck ==
    /\ pc = "cancel_check"
    /\ IF cancel_requested
          THEN /\ Emit(Signal("cancelled", <<>>))
               /\ pc' = "done"
          ELSE /\ pc' = "emit_file"
               /\ UNCHANGED events
    /\ UNCHANGED <<scan, ui, flags, w, files_to_process, results, total_files, i,
                   elapsed>>

\* Faulty variant: the record is emitted and its progress_update is left out.
EmitFileWithoutProgress ==
    /\ pc = "emit_file"
    /\ results' = Append(results, Row(files_to_process[i + 1]))
    /\ Emit(Signal("live_file_signal", <<Row(files_to_process[i + 1])>>))
    /\ pc' = "emit_eta"
    /\ UNCHANGED <<scan, ui, flags, w, files_to_process, total_files, i, elapsed>>

\* Lines 82-83.
EmitFile ==
    /\ pc = "emit_file"
    /\ results' = Append(results, Row(files_to_process[i + 1]))
    /\ Emit(Signal("live_file_signal", <<Row(files_to_process[i + 1])>>))
    /\ pc' = "emit_progress"
    /\ UNCHANGED <<scan, ui, flags, w, files_to_process, total_files, i, elapsed>>

\* Lines 85-88: the clock is read, it never runs backwards.
EmitProgress ==
    /\ pc = "emit_progress"
    /\ \E el \in elapsed..MaxElapsed :
           /\ elapsed' = el
           /\ Emit(Signal("progress_update",
                          <<Percent(i + 1, total_files),
                            ProgressMessage(files_to_process[i + 1].filename,
                                            i + 1, total_files,
                                            Remaining(el, i + 1, total_files))>>))
    /\ pc' = "emit_eta"
    /\ UNCHANGED <<scan, ui, flags, w, files_to_process, results, total_files, i>>

\* Lines 89-91, and the loop's step.
EmitEta ==
    /\ pc = "emit_eta"
    /\ Emit(Signal("eta_signal", <<Remaining(elapsed, i + 1, total_files)>>))
    /\ i' = i + 1
    /\ pc' = IF i + 1 < total_files THEN "pause_check" ELSE "finish"
    /\ UNCHANGED <<scan, ui, flags, w, files_to_process, results, total_files,
                   elapsed>>

\* Line 93.
Finish ==
    /\ pc = "finish"
    /\ Emit(Signal("result_ready", <<results>>))
    /\ pc' = "done"
    /\ UNCHANGED <<scan, ui, flags, w, files_to_process, results, total_files, i,
                   elapsed>>

run ==
    \/ WalkCancelled
    \/ WalkFile
    \/ WalkDone
    \/ EmitNoFiles
    \/ EmitEmptyResult
    \/ PauseCheck
    \/ Sleep
    \/ CancelCheck
    \/ EmitFile
    \/ EmitProgress
    \/ EmitEta
    \/ Finish

thread == <<pc, w, files_to_process, results, total_files, i, elapsed, events>>

\* Faulty variant: cancel() also clears paused.
cancelAlsoResumes ==
    /\ cancel_requested' = TRUE
    /\ paused' = FALSE
    /\ evAtCancel' = IF cancel_requested THEN evAtCancel ELSE Len(events)
    /\ pcAtCancel' = IF cancel_requested THEN pcAtCancel ELSE pc
    /\ evAtPause' = -1
    /\ UNCHANGED <<scan, thread>>

cancel ==
    /\ cancel_requested' = TRUE
    /\ evAtCancel' = IF cancel_requested THEN evAtCancel ELSE Len(events)
    /\ pcAtCancel' = IF cancel_requested THEN pcAtCancel ELSE pc
    /\ UNCHANGED <<scan, thread, paused, evAtPause>>

pause ==
    /\ paused' = TRUE
    /\ evAtPause' = IF paused THEN evAtPause ELSE Len(events)
    /\ UNCHANGED <<scan, thread, cancel_requested, evAtCancel, pcAtCancel>>

resume ==
    /\ paused' = FALSE
    /\ evAtPause' = -1
    /\ UNCHANGED <<scan, thread, cancel_requested, evAtCancel, pcAtCancel>>

Next ==
    \/ Start
    \/ run
    \/ cancel /\ UNCHANGED ui
    \/ pause /\ UNCHANGED ui
    \/ resume /\ UNCHANGED ui

Spec == Init /\ [][Next]_vars

\* The scanner thread, once created, is started and keeps being scheduled;
\* nothing obliges the consumer to call cancel, pause or resume.
FairSpec == Spec /\ WF_vars(Start) /\ WF_vars(run)

\* ------------------------------------------------------ the event stream

Last(es) == es[Len(es)]

CountOf(es, sig) == Len(SelectSeq(es, LAMBDA e : e.sig = sig))

NumDiscovered == CountOf(events, "live_file_signal")
NumProgress == CountOf(events, "progress_update")
NumCompleted == CountOf(events, "result_ready")

EndsCancelled == events # <<>> /\ Last(events).sig = "cancelled"
EndsCompleted == events # <<>> /\ Last(events).sig = "result_ready"

\* The pause loop of lines 76-77.
PauseLoop == {"pause_check", "sleep"}

\* The candidate list a walk that is never cancelled ends with.
RECURSIVE CandidatesFrom(_, _)
CandidatesFrom(cands, es) ==
    IF es = <<>> THEN cands
    ELSE CandidatesFrom(Enumerate(cands, Head(es), extensions, threshold_gb),
                        Tail(es))

M == Len(CandidatesFrom(<<>>, Walk(root_directory)))

\* --------------------------------------------------------- FileAnalyzerUI

\* The trees the window scans: an empty folder, and files of equal size
\* under different names in one directory or two.
UIFiles ==
    [a |-> File(<<"a", ".", "M">>, 2048, TRUE, TRUE),
     b |-> File(<<"b", ".", "z">>, 2048, TRUE, TRUE),
     c |-> File(<<"c", ".", "m">>, 103, TRUE, TRUE)]

UIListings ==
    { <<>>,
      <<Entry("/r", UIFiles.a), Entry("/r", UIFiles.b)>>,
      <<Entry("/r", UIFiles.c), Entry("/r/s", UIFiles.a)>> }

UIRoots == {[readable |-> TRUE, entries |-> es] : es \in UIListings}

\* os.path.dirname(filepath)
Dirname(file_path) == file_path[1]

\* os.path.basename(folder)
Basename(folder) == <<"r", "s">>[DirIndex(folder)]

\* float(size_gb) > 5.0, in hundredths.
RedAbove == 500

\* QTreeWidgetItem([filename, filepath, size_mb, size_gb]), red above 5 GiB.
ChildItem(row) == [texts |-> row, red |-> row[4] > RedAbove]

\* QTreeWidgetItem([os.path.basename(folder), folder, "", ""])
FolderItem(folder) ==
    [folder |-> folder,
     texts |-> <<Basename(folder), folder, "", "">>,
     children |-> <<>>]

\* Faulty variant: a folder item is made for every row.
AddRowAlwaysNewFolder(items, row) ==
    Append(items, [FolderItem(Dirname(row[2])) EXCEPT
                       !.children = <<ChildItem(row)>>])

\* add_row: the folder item is made on the folder's first row; the child is
\* appended to it.
AddRow(items, row) ==
    LET folder == Dirname(row[2])
        known == \E k \in 1..Len(items) : items[k].folder = folder
        with == IF known THEN items ELSE Append(items, FolderItem(folder))
    IN  [k \in 1..Len(with) |->
            IF with[k].folder = folder
                THEN [with[k] EXCEPT !.children = Append(@, ChildItem(row))]
                ELSE with[k]]

\* The code points of the characters file names are made of.
Ord(c) ==
    CASE c = " " -> 32
      [] c = "." -> 46
      [] c = "A" -> 65
      [] c = "M" -> 77
      [] c = "Z" -> 90
      [] c = "a" -> 97
      [] c = "b" -> 98
      [] c = "c" -> 99
      [] c = "d" -> 100
      [] c = "e" -> 101
      [] c = "m" -> 109
      [] c = "z" -> 122

\* s < t for Python strings.
RECURSIVE StrLess(_, _)
StrLess(s, t) ==
    IF t = <<>> THEN FALSE
    ELSE IF s = <<>> THEN TRUE
    ELSE IF Head(s) = Head(t) THEN StrLess(Tail(s), Tail(t))
    ELSE Ord(Head(s)) < Ord(Head(t))

\* p < q for the tuples (size, label) of zip(sizes, labels).
TupleLess(p, q) == p[1] < q[1] \/ (p[1] = q[1] /\ StrLess(p[2], q[2]))

\* One more tuple into a list sorted descending: behind every tuple that is
\* not less than it, so equal tuples keep their order.
InsertDescending(sorted, p) ==
    LET n == Cardinality({k \in 1..Len(sorted) : ~TupleLess(sorted[k], p)})
    IN  SubSeq(sorted, 1, n) \o <<p>> \o SubSeq(sorted, n + 1, Len(sorted))

\* sorted(zip(sizes, labels), reverse=True)
RECURSIVE SortedReverse(_)
SortedReverse(ps) ==
    IF ps = <<>> THEN <<>>
    ELSE InsertDescending(SortedReverse(SubSeq(ps, 1, Len(ps) - 1)),
                          ps[Len(ps)])

\* The (float(child.text(3)), child.text(0)) of every child, folder by
\* folder in the order of self.folder_items.
RECURSIVE ChartData(_)
ChartData(items) ==
    IF items = <<>> THEN <<>>
    ELSE LET children == Head(items).children
         IN  [k \in 1..Len(children) |->
                 <<children[k].texts[4], children[k].texts[1]>>]
                 \o ChartData(Tail(items))

\* render_funnel_chart: the bars from top to bottom; none for "No data".
render_funnel_chart(items) ==
    IF ChartData(items) = <<>> THEN <<>> ELSE SortedReverse(ChartData(items))

\* The signals of one candidate, emitted without a break.
FileSignals(cands, k, el) ==
    <<Signal("live_file_signal", <<Row(cands[k])>>),
      Signal("progress_update",
             <<Percent(k, Len(cands)),
               ProgressMessage(cands[k].filename, k, Len(cands),
                               Remaining(el, k, Len(cands)))>>),
      Signal("eta_signal", <<Remaining(el, k, Len(cands))>>)>>

\* What the emission loop still emits from the pause check of index k when
\* nobody calls cancel(), pause() or resume() any more.
RECURSIVE EmitFrom(_, _, _)
EmitFrom(cands, k, res) ==
    IF k = Len(cands) THEN <<Signal("result_ready", <<res>>)>>
    ELSE IF paused THEN <<>>
    ELSE IF cancel_requested THEN <<Signal("cancelled", <<>>)>>
    ELSE FileSignals(cands, k + 1, elapsed)
             \o EmitFrom(cands, k + 1, Append(res, Row(cands[k + 1])))

NoFilesSignals ==
    <<Signal("progress_update", <<100, NoFilesMessage>>),
      Signal("result_ready", <<(<<>>)>>)>>

\* What run() still emits from where it stands when the window has dropped
\* its reference to the thread: the flags stay as they are, the clock
\* reading is taken to stay as last read.
RestOfRun ==
    LET walk == Walk(root_directory)
        rest == SubSeq(walk, w + 1, Len(walk))
        cands == CandidatesFrom(files_to_process, rest)
        signals == FileSignals(files_to_process, i + 1, elapsed)
        tail == EmitFrom(files_to_process, i + 1, results)
    IN  CASE pc \in {"created", "walk"} ->
                 IF rest # <<>> /\ cancel_requested
                     THEN <<Signal("cancelled", <<>>)>>
                 ELSE IF cands = <<>> THEN NoFilesSignals
                 ELSE EmitFrom(cands, 0, <<>>)
          [] pc = "no_files" -> NoFilesSignals
          [] pc = "no_files_result" -> Tail(NoFilesSignals)
          [] pc \in {"pause_check", "sleep"} ->
                 EmitFrom(files_to_process, i, results)
          [] pc = "cancel_check" ->
                 IF cancel_requested THEN <<Signal("cancelled", <<>>)>>
                 ELSE signals
                          \o EmitFrom(files_to_process, i + 1,
                                      Append(results,
                                             Row(files_to_process[i + 1])))
          [] pc = "emit_file" ->
                 signals
                     \o EmitFrom(files_to_process, i + 1,
                                 Append(results, Row(files_to_process[i + 1])))
          [] pc = "emit_progress" -> Tail(signals) \o tail
          [] pc = "emit_eta" -> Tail(Tail(signals)) \o tail
          [] pc = "finish" -> <<Signal("result_ready", <<results>>)>>
          [] pc = "done" -> <<>>

\* A signal reaches its slot through the window's event queue, in the order
\* it was emitted; the signals of a replaced thread that were queued when it
\* was replaced come before every signal of the thread that replaced it.
Sources == {"thread", "replaced"}

Pending(src) ==
    IF src = "thread"
        THEN IF posted = 0 THEN SubSeq(events, delivered + 1, Len(events))
                           ELSE <<>>
        ELSE old_pending

Take(src) ==
    IF src = "thread"
        THEN delivered' = delivered + 1 /\ UNCHANGED <<old_pending, posted>>
        ELSE /\ old_pending' = Tail(old_pending)
             /\ posted' = IF posted > 0 THEN posted - 1 ELSE 0
             /\ UNCHANGED delivered

Handles(src, sig) ==
    /\ Pending(src) # <<>>
    /\ Head(Pending(src)).sig = sig
    /\ Take(src)

add_row ==
    \E src \in Sources :
        /\ Handles(src, "live_file_signal")
        /\ folder_items' = AddRow(folder_items, Head(Pending(src)).args[1])
        /\ ingested' = Append(ingested, [row |-> Head(Pending(src)).args[1],
                                         source |-> src])
        /\ UNCHANGED <<scan, flags, thread, stale_handled, progress_bar,
                       chart, buttons, scans>>

update_progress ==
    \E src \in Sources :
        /\ Handles(src, "progress_update")
        /\ progress_bar' = Head(Pending(src)).args[1]
        /\ stale_handled' = (stale_handled \/ src = "replaced")
        /\ UNCHANGED <<scan, flags, thread, folder_items, ingested, chart,
                       buttons, scans>>

\* The ETA goes to the window title only.
update_eta_title ==
    \E src \in Sources :
        /\ Handles(src, "eta_signal")
        /\ stale_handled' = (stale_handled \/ src = "replaced")
        /\ UNCHANGED <<scan, flags, thread, folder_items, ingested,
                       progress_bar, chart, buttons, scans>>

show_results ==
    \E src \in Sources :
        /\ Handles(src, "result_ready")
        /\ cancel_button' = FALSE
        /\ pause_button' = FALSE
        /\ chart' = render_funnel_chart(folder_items)
        /\ stale_handled' = (stale_handled \/ src = "replaced")
        /\ UNCHANGED <<scan, flags, thread, folder_items, ingested,
                       progress_bar, scans>>

\* Faulty variant: the cancelled signal clears the table.
thread_cancelledClearsTable ==
    \E src \in Sources :
        /\ Handles(src, "cancelled")
        /\ progress_bar' = 0
        /\ cancel_button' = FALSE
        /\ pause_button' = FALSE
        /\ folder_items' = <<>>
        /\ stale_handled' = (stale_handled \/ src = "replaced")
        /\ UNCHANGED <<scan, flags, thread, ingested, chart, scans>>

thread_cancelled ==
    \E src \in Sources :
        /\ Handles(src, "cancelled")
        /\ progress_bar' = 0
        /\ cancel_button' = FALSE
        /\ pause_button' = FALSE
        /\ stale_handled' = (stale_handled \/ src = "replaced")
        /\ UNCHANGED <<scan, flags, thread, folder_items, ingested, chart,
                       scans>>

history == <<evAtCancel, pcAtCancel, evAtPause>>

\* The Cancel button, when enabled: self.thread.cancel() sets the flag. The
\* history of direct calls of cancel(), pause() and resume() is not kept for
\* the buttons.
cancel_scan ==
    /\ cancel_button
    /\ cancel_requested' = TRUE
    /\ cancel_button' = FALSE
    /\ UNCHANGED <<scan, thread, paused, history, queue, view, pause_button,
                   scans>>

\* The Pause button, when enabled: self.thread.resume() or pause().
toggle_pause_resume ==
    /\ pause_button
    /\ IF paused THEN paused' = FALSE ELSE paused' = TRUE
    /\ UNCHANGED <<scan, thread, cancel_requested, history, ui>>

\* The Start button, pressed again with the inputs as they were: the view
\* is cleared and self.thread is replaced. The thread that was there is not
\* stopped and its signals stay connected. One replaced thread at a time has
\* signals left to handle.
start_scan ==
    /\ scans < MaxScans
    /\ scans' = scans + 1
    /\ old_pending = <<>>
    /\ progress_bar' = 0
    /\ folder_items' = <<>>
    /\ ingested' = <<>>
    /\ stale_handled' = FALSE
    /\ old_pending' = SubSeq(events, delivered + 1, Len(events)) \o RestOfRun
    /\ posted' = Len(events) - delivered
    /\ delivered' = 0
    /\ cancel_requested' = FALSE
    /\ paused' = FALSE
    /\ pc' = "created"
    /\ w' = 0
    /\ files_to_process' = <<>>
    /\ results' = <<>>
    /\ total_files' = 0
    /\ i' = 0
    /\ elapsed' = 0
    /\ events' = <<>>
    /\ cancel_button' = TRUE
    /\ pause_button' = TRUE
    /\ UNCHANGED <<scan, history, chart>>

UIInit ==
    /\ request \in [root : UIRoots, threshold : {10}, extensions : {<< <<>> >>}]
    /\ Constructed

UINext ==
    \/ Start
    \/ run
    \/ add_row
    \/ update_progress
    \/ update_eta_title
    \/ show_results
    \/ thread_cancelled
    \/ cancel_scan
    \/ toggle_pause_resume
    \/ start_scan

UISpec == UIInit /\ [][UINext]_vars

\* ---------------------------------------------------------------------- C1

\* C1: a cancel() that arrives while the scanner waits in the pause loop
\* with paused = TRUE leads to the cancelled signal, with no resume() needed.
C1_CancelWhilePausedIsHonored ==
    (paused /\ cancel_requested /\ pc \in PauseLoop)
        ~> (pc = "done" /\ EndsCancelled)

\* ---------------------------------------------------------------------- C2

\* What has been emitted since pause() set the flag.
SincePause == SubSeq(events, evAtPause + 1, Len(events))

\* C2 as stated, for the emission loop of a scan with candidates: no step
\* taken while paused is TRUE emits a FileDiscovered or a Progress event.
C2_NoEmissionWhilePaused ==
    [][(paused /\ total_files >= 1)
           => (NumDiscovered' = NumDiscovered /\ NumProgress' = NumProgress)]_vars

\* C2 as amended: pause() takes effect at the next pause check. After it sets
\* the flag the scanner emits at most one FileDiscovered and one Progress
\* event (those of the candidate whose pause check had already passed, or the
\* Progress(100) of a walk without candidates), and once it stands in the
\* pause loop with paused TRUE it emits nothing and stays there until
\* resume() clears the flag.
C2_PauseTakesEffectAtCheckpoint ==
    /\ [](paused => /\ CountOf(SincePause, "live_file_signal") <= 1
                    /\ CountOf(SincePause, "progress_update") <= 1)
    /\ [][(paused /\ paused' /\ pc \in PauseLoop)
              => (Len(events') = Len(events) /\ pc' \in PauseLoop)]_vars

\* The scanner waits in the pause loop, having emitted the record and the
\* progress of the candidate that was in flight when pause() was called, with
\* another candidate left.
C2_Witness ==
    /\ paused
    /\ pc = "sleep"
    /\ i < total_files
    /\ CountOf(SincePause, "live_file_signal") = 1
    /\ CountOf(SincePause, "progress_update") = 1

\* ---------------------------------------------------------------------- C3

\* cancel() was called before the terminal event, in a scan with candidates.
CancelCase == evAtCancel >= 0 /\ pcAtCancel # "done" /\ M >= 1

\* The FileDiscovered events emitted when cancel() was called.
N == CountOf(SubSeq(events, 1, evAtCancel), "live_file_signal")

\* C3 as stated: a cancel() after N FileDiscovered events leaves exactly N of
\* them in the stream, which ends with Cancelled and holds no Completed.
C3_CancelAfterNYieldsExactlyN ==
    CancelCase => /\ NumDiscovered = N
                  /\ NumCompleted = 0
                  /\ (pc = "done" => EndsCancelled)

\* C3 as amended: the stream holds N FileDiscovered events, or N + 1 when
\* cancel() arrives between the cancel check of candidate N + 1 and its
\* emission; the terminal event is Cancelled, with no Completed, when fewer
\* than M records were emitted, and Completed with all M rows when all M were.
C3_CancelTakesEffectAtCheckpoint ==
    CancelCase =>
        /\ NumDiscovered \in {N, N + 1}
        /\ (pcAtCancel # "emit_file" => NumDiscovered = N)
        /\ (pc = "done" =>
                IF NumDiscovered < M
                    THEN EndsCancelled /\ NumCompleted = 0
                    ELSE /\ EndsCompleted
                         /\ NumCompleted = 1
                         /\ Len(Last(events).args[1]) = M)

\* A scan of two candidates, cancelled after its first record, has ended.
C3_Witness ==
    /\ CancelCase
    /\ M = 2
    /\ N = 1
    /\ pc = "done"
    /\ EndsCancelled
    /\ NumDiscovered = 1

\* ---------------------------------------------------------------------- C4

\* C4: a cancel() before the emission phase (before run() starts, or during
\* the walk) ends the scan with Cancelled, with no FileDiscovered and no
\* Completed, whatever the tree holds.
C4_CancelBeforeEmission ==
    pcAtCancel \in {"created", "walk"} =>
        /\ NumDiscovered = 0
        /\ NumCompleted = 0
        /\ (pc = "done" => EndsCancelled)

\* ---------------------------------------------------------------------- C5

\* The rows of the FileDiscovered events, in emission order.
Discovered ==
    LET es == SelectSeq(events, LAMBDA e : e.sig = "live_file_signal")
    IN  [k \in 1..Len(es) |-> es[k].args[1]]

\* A name ends with a suffix: some split of its lowercase form has it last.
HasSuffix(name, suffix) ==
    \E n \in 0..Len(name) :
        [k \in 1..Len(name) - n |-> LowerStr(name)[n + k]] = suffix

\* The reference pass: one test per listed file, no loop state.
Qualifies(e) ==
    /\ e.file.exists
    /\ e.file.statable
    /\ extensions # <<>> => \E k \in 1..Len(extensions) :
                                HasSuffix(e.file.name, extensions[k])
    /\ e.file.mib * 100 > threshold_gb * MiBPerGiB

Reference ==
    LET es == SelectSeq(Walk(root_directory), Qualifies)
    IN  [k \in 1..Len(es) |->
            <<es[k].file.name, <<es[k].dirpath, es[k].file.name>>,
              Fmt2(<<es[k].file.mib, 1>>),
              Fmt2(<<es[k].file.mib, MiBPerGiB>>)>>]

\* C5: a scan that ends without a cancel has emitted exactly the listed
\* files that pass the extension filter and exceed the threshold, once each
\* and in walk order, and its Completed carries as many rows as it emitted.
C5_EmitsExactlyTheQualifyingFiles ==
    (pc = "done" /\ ~cancel_requested) =>
        /\ Discovered = Reference
        /\ \A j, k \in 1..Len(Discovered) :
               j # k => Discovered[j][2] # Discovered[k][2]
        /\ EndsCompleted
        /\ NumCompleted = 1
        /\ Len(Last(events).args[1]) = Len(Discovered)

\* A scan under a positive threshold has ended, never cancelled: one record
\* emitted of two files listed.
C5_Witness ==
    /\ pc = "done"
    /\ ~cancel_requested
    /\ request.threshold > 0
    /\ Len(Discovered) = 1
    /\ Len(Walk(root_directory)) = 2

\* ---------------------------------------------------------------------- C6

\* The listed file a row was made from.
FileOf(row) ==
    (CHOOSE e \in {root_directory.entries[k] :
                       k \in 1..Len(root_directory.entries)} :
         <<e.dirpath, e.file.name>> = row[2]).file

MatchesRequestFilter(row) ==
    extensions # <<>> =>
        \E k \in 1..Len(extensions) : HasSuffix(row[1], extensions[k])

\* C6 as stated: every emitted record's sizeGiB exceeds the request's
\* threshold, and its name ends with a suffix of a non-empty filter.
C6_EmittedExceedThreshold ==
    \A k \in 1..Len(Discovered) :
        /\ Discovered[k][4] > request.threshold
        /\ MatchesRequestFilter(Discovered[k])

\* C6 as amended: every emitted record is of a file whose size in GiB exceeds
\* the request's threshold; the record's sizeGiB, that size rounded to two
\* decimals, is at least the threshold rounded to two decimals, and can equal
\* it; the name ends with a suffix of a non-empty filter.
C6_EmittedFilesExceedThreshold ==
    \A k \in 1..Len(Discovered) :
        /\ FileOf(Discovered[k]).mib * 100 > request.threshold * MiBPerGiB
        /\ Discovered[k][4] >= request.threshold
        /\ MatchesRequestFilter(Discovered[k])

\* A record is emitted whose sizeGiB equals a positive threshold.
C6_Witness ==
    /\ \E k \in 1..Len(Discovered) : Discovered[k][4] = request.threshold
    /\ request.threshold > 0

\* ---------------------------------------------------------------------- C7

\* The percent values of the Progress events, in emission order.
Percents ==
    LET es == SelectSeq(events, LAMBDA e : e.sig = "progress_update")
    IN  [k \in 1..Len(es) |-> es[k].args[1]]

\* C7: the percent values never decrease, and the last one before a
\* Completed is 100.
C7_PercentMonotoneTo100 ==
    /\ \A j, k \in 1..Len(Percents) : j < k => Percents[j] <= Percents[k]
    /\ EndsCompleted => Percents # <<>> /\ Last(Percents) = 100

\* A completed scan of two candidates: 50, 100.
C7_Witness == EndsCompleted /\ Percents = <<50, 100>>

\* ---------------------------------------------------------------------- C8

\* C8: in a scan with a candidate, a FileDiscovered is followed at once by
\* the Progress of the same file, and a Progress follows its FileDiscovered.
C8_DiscoveredThenProgress ==
    total_files >= 1 =>
        /\ \A k \in 1..Len(events) :
               events[k].sig = "live_file_signal" =>
                   IF k = Len(events) THEN pc = "emit_progress"
                   ELSE /\ events[k + 1].sig = "progress_update"
                        /\ events[k + 1].args[2].filename = events[k].args[1][1]
                        /\ events[k + 1].args[2].ordinal =
                               CountOf(SubSeq(events, 1, k), "live_file_signal")
        /\ \A k \in 1..Len(events) :
               events[k].sig = "progress_update" =>
                   k > 1 /\ events[k - 1].sig = "live_file_signal"

\* Two records emitted, each followed by its Progress.
C8_Witness == total_files >= 2 /\ NumDiscovered = 2 /\ NumProgress = 2

\* ---------------------------------------------------------------------- C9

\* The walk ended with an empty candidate list.
NoCandidates == w = Len(Walk(root_directory)) /\ files_to_process = <<>>

\* C9: a walk that yields no candidate ends with the stream
\* Progress(100, "No files found above threshold.") then Completed(0).
C9_NoCandidatesStream ==
    (pc = "done" /\ NoCandidates) =>
        events = <<Signal("progress_update", <<100, NoFilesMessage>>),
                   Signal("result_ready", <<(<<>>)>>)>>

\* A listed tree without a qualifying file has been scanned to the end.
C9_Witness ==
    /\ pc = "done"
    /\ NoCandidates
    /\ root_directory.readable
    /\ Len(events) = 2

\* --------------------------------------------------------------------- C10

\* C10: a scan of a root that cannot be listed ends with an event that is
\* neither Cancelled nor Completed, and emits no FileDiscovered or Completed.
C10_RootUnreadableFails ==
    (pc = "done" /\ ~root_directory.readable) =>
        /\ ~EndsCancelled
        /\ ~EndsCompleted
        /\ NumDiscovered = 0
        /\ NumCompleted = 0

\* --------------------------------------------------------------------- C11

\* A listed file that is gone when it is tested, or whose size probe fails.
Unprobeable(e) == ~e.file.exists \/ ~e.file.statable

DiscoveredPaths == {Discovered[k][2] : k \in 1..Len(Discovered)}

\* C11: a file that vanished or whose size probe fails is never a candidate
\* and never emitted; the scan goes on past it: a scan that ends without a
\* cancel has emitted every other listed file that passes the filter and
\* exceeds the threshold, and ends with Completed.
C11_UnprobeableFilesAreSkipped ==
    LET walk == Walk(root_directory)
    IN  /\ \A k \in 1..Len(files_to_process) :
               LET f == FileOf(Row(files_to_process[k]))
               IN  f.exists /\ f.statable
        /\ \A k \in 1..Len(Discovered) :
               LET f == FileOf(Discovered[k])
               IN  f.exists /\ f.statable
        /\ (pc = "done" /\ ~cancel_requested) =>
               /\ EndsCompleted
               /\ \A k \in 1..Len(walk) :
                      (~Unprobeable(walk[k]) /\ Qualifies(walk[k])) =>
                          <<walk[k].dirpath, walk[k].file.name>>
                              \in DiscoveredPaths

\* A scan has completed on a tree that lists a file which passes the filter
\* but cannot be probed, ahead of a file that was emitted.
C11_Witness ==
    LET walk == Walk(root_directory)
    IN  /\ pc = "done"
        /\ EndsCompleted
        /\ \E j, k \in 1..Len(walk) :
               /\ j < k
               /\ Unprobeable(walk[j])
               /\ PassesFilter(walk[j].file.name, extensions)
               /\ walk[j].file.mib * 100 > threshold_gb * MiBPerGiB
               /\ <<walk[k].dirpath, walk[k].file.name>> \in DiscoveredPaths

\* ---------------------------------------------------------------- C12, C13

\* The records the Aggregator has ingested, in ingestion order.
Rows == [n \in 1..Len(ingested) |-> ingested[n].row]

\* The children, as <<group, position>>, that hold a record of a path.
ChildrenOf(path) ==
    UNION {{<<g, k>> : k \in {j \in 1..Len(folder_items[g].children) :
                                 folder_items[g].children[j].texts[2] = path}} :
               g \in 1..Len(folder_items)}

\* C12: no two groups share a folder path, and every ingested record is
\* exactly once among the children of the group of its parent directory and
\* among the children of no other group.
C12_EachRecordOnceInItsGroup ==
    /\ \A g, h \in 1..Len(folder_items) :
           g # h => folder_items[g].folder # folder_items[h].folder
    /\ \A n \in 1..Len(Rows) :
           /\ Cardinality(ChildrenOf(Rows[n][2])) = 1
           /\ \A c \in ChildrenOf(Rows[n][2]) :
                  folder_items[c[1]].folder = Dirname(Rows[n][2])

\* The folders of the ingested records, each at its first occurrence.
FirstSeenFolders ==
    LET first == {n \in 1..Len(Rows) :
                      \A m \in 1..(n - 1) :
                          Dirname(Rows[m][2]) # Dirname(Rows[n][2])}
        nth(g) == CHOOSE n \in first :
                      Cardinality({m \in first : m < n}) = g - 1
    IN  [g \in 1..Cardinality(first) |-> Dirname(Rows[nth(g)][2])]

C14_IngestIsIdempotent ==
    [][(/\ Len(ingested') = Len(ingested) + 1
        /\ \E n \in 1..Len(ingested) :
               Rows[n][2] = ingested'[Len(ingested')].row[2])
          => folder_items' = folder_items]_vars

\* --------------------------------------------------------------------- C15

\* A list of (size, label) by size descending, equal sizes in the order they
\* have in the list.
RECURSIVE StableBySizeDescending(_)
StableBySizeDescending(ps) ==
    IF ps = <<>> THEN <<>>
    ELSE LET largest == CHOOSE v \in {ps[k][1] : k \in 1..Len(ps)} :
                            \A k \in 1..Len(ps) : ps[k][1] <= v
         IN  SelectSeq(ps, LAMBDA p : p[1] = largest)
                 \o StableBySizeDescending(
                        SelectSeq(ps, LAMBDA p : p[1] # largest))

\* A signal of the given name is handled in this step.
Handled(sig) ==
    \/ /\ delivered' = delivered + 1
       /\ events[delivered'].sig = sig
    \/ /\ old_pending # <<>>
       /\ old_pending' = Tail(old_pending)
       /\ Head(old_pending).sig = sig

\* C15: the ranking drawn from the groups is ordered by size descending and
\* records of equal size keep their encounter order, whatever their labels;
\* no record gives no bar.
C15_RankingIsStable ==
    [][Handled("result_ready")
          => chart' = StableBySizeDescending(ChartData(folder_items))]_vars

\* --------------------------------------------------------------------- C16

\* The rows among the children of the groups.
ChildRows ==
    UNION {{folder_items[g].children[k].texts :
                k \in 1..Len(folder_items[g].children)} :
               g \in 1..Len(folder_items)}

C17_ControlsWriteOnlyTheirFlag ==
    [][/\ cancel_requested => cancel_requested'
       /\ cancel_requested' # cancel_requested =>
              paused' = paused /\ UNCHANGED <<scan, thread>>
       /\ paused' # paused =>
              cancel_requested' = cancel_requested /\ UNCHANGED <<scan, thread>>
       /\ (cancel /\ cancel_requested) =>
              UNCHANGED <<scan, thread, cancel_requested, paused>>
       /\ (pause /\ paused) =>
              UNCHANGED <<scan, thread, cancel_requested, paused>>
       /\ (resume /\ ~paused) =>
              UNCHANGED <<scan, thread, cancel_requested, paused>>]_vars

\* cancel() and pause() have both been called while the emission loop, one
\* file processed, waits in its pause loop.
C17_Witness ==
    /\ cancel_requested
    /\ paused
    /\ pc = "sleep"
    /\ i >= 1
    /\ evAtCancel > evAtPause

\* --------------------------------------------------------------------- C18

\* The ETA of every eta_signal, in emission order.
Etas ==
    LET es == SelectSeq(events, LAMBDA e : e.sig = "eta_signal")
    IN  [k \in 1..Len(es) |-> es[k].args[1]]

\* r is the truncation of el / k * (total - k).
IsTruncatedQuotient(r, el, k, total) ==
    /\ k >= 1
    /\ r >= 0
    /\ r * k <= el * (total - k)
    /\ el * (total - k) < (r + 1) * k

NumTerminal == NumCompleted + CountOf(events, "cancelled")

\* At most one terminal signal, nothing after it, and run() has returned
\* exactly when it is there.
OneTerminalLast ==
    /\ NumTerminal <= 1
    /\ NumTerminal = 1 <=> pc = "done"
    /\ NumTerminal = 1 => Last(events).sig \in {"result_ready", "cancelled"}

\* C19 as stated: one terminal signal and nothing after it; and if every
\* pause() is eventually followed by a resume(), the terminal signal is
\* eventually emitted.
C19_TerminatesIfEveryPauseIsResumed ==
    /\ []OneTerminalLast
    /\ [](paused => <>~paused) => <>(pc = "done")

\* C19: one terminal signal and nothing after it; and if from some moment on
\* paused stays false, the terminal signal is eventually emitted.
C19_TerminatesIfPausesEnd ==
    /\ []OneTerminalLast
    /\ <>[]~paused => <>(pc = "done")

\* A scan has emitted a record and then its one terminal signal, with paused
\* false at the end.
C19_Witness ==
    /\ pc = "done"
    /\ NumTerminal = 1
    /\ NumDiscovered >= 1
    /\ ~paused

\* --------------------------------------------------------------------- C20

\* C20: since start_scan last cleared the view, every record ingested and
\* every other signal handled came from the thread it started then.
C20_OnlyTheLatestScanFeedsTheView ==
    /\ ~stale_handled
    /\ \A n \in 1..Len(ingested) : ingested[n].source = "thread"

====
